---- MODULE Spec2Model ----
(***************************************************************************)
(* The producer and consumer services of vikartp/microservices and the     *)
(* message broker they talk to.                                            *)
(*                                                                         *)
(* producer/index.js and consumer/index.js are modelled from the source:   *)
(* connectWithRetry, startUp, sendMessage, the three producer routes and   *)
(* the two consume handlers.  The broker (queues, delivery, acknowledgment,*)
(* prefetch accounting) is the external collaborator the services rely on; *)
(* it is modelled from sections 3 and 4 of spec.md.                        *)
(***************************************************************************)
EXTENDS Integers, Sequences, FiniteSets, TLC

VARIABLES
    phase,        \* per process: "off", "db", "mq", "up", "exited"
    exitCode,     \* per process: argument of process.exit, -1 while none
    openConns,    \* per process: broker connections opened and not closed
    i,            \* per process: loop variable of the running connectWithRetry
    pc,           \* per process: the await the running connectFn is suspended at
    calls,        \* per process and service: connectFn invocations of connectWithRetry
    waits,        \* per process and service: the sleep(ms) arguments of connectWithRetry
    retried,      \* per process and service: "none", "pending", "true", "threw"
    channel,      \* producer: the module variable `channel`
    outbox,       \* producer: messages sendToQueue buffered, not yet written to the socket
    http,         \* producer: the last request handled and the response it got
    handling,     \* consumer: the handler invocations in progress
    saved,        \* consumer: the User documents saved, in save order
    acked,        \* consumer: the messages passed to ch1.ack, in ack order
    faults,       \* environment: failures and crashes it may still cause
    crashes,      \* environment: crashes of the consumer process so far
    registry,     \* broker: the queues created so far, by name, in creation order
    ready,        \* broker: per queue, ready_sequence
    inflight,     \* broker: per queue, the (message, consumer) pairs in flight
    sessions,     \* broker: the consumer sessions
    nextId,       \* broker: the next message id
    dead          \* broker: messages routed to the dead-letter path

procVars == <<phase, exitCode, openConns>>

retryVars == <<i, pc, calls, waits, retried>>

prodVars == <<outbox, http>>

consVars == <<handling, saved, acked>>

envVars == <<faults, crashes>>

brokerVars == <<registry, ready, inflight, sessions, nextId, dead>>

msgVars == <<ready, inflight, sessions, nextId, dead>>

vars == <<phase, exitCode, openConns, i, pc, calls, waits, retried, channel, outbox,
          http, handling, saved, acked, faults, crashes, registry, ready,
          inflight, sessions, nextId, dead>>

(***************************************************************************)
(* Bounds of the model.                                                    *)
(***************************************************************************)
MaxFaults == 1

MaxMessages == 2

(***************************************************************************)
(* Program constants.                                                      *)
(***************************************************************************)
maxRetries == 10

delay == 3000

queue == "tasks"

userQueue == "user_tasks"

Procs == {"producer", "consumer"}

\* serviceName of the first connectWithRetry of startUp
DbService(p) == IF p = "producer" THEN "PostgreSQL" ELSE "MongoDB"

Services == {"PostgreSQL", "MongoDB", "RabbitMQ"}

\* A fault budget that never binds: one startUp makes fewer than
\* maxRetries + maxRetries failing attempts.
Unlimited == maxRetries + maxRetries

\* `let channel;` and the value createChannel() resolves to.  `asserted` are
\* the queues asserted through this channel object.
Undefined == [set |-> FALSE, open |-> FALSE, asserted |-> {}]

NewChannel == [set |-> TRUE, open |-> TRUE, asserted |-> {}]

QueueNames == {queue, userQueue}

\* Mutant: ch1.prefetch(2).
prefetchTwo == 1 + 1

\* ch1.prefetch(1)
prefetch == 1

\* assertQueue(queue) and assertQueue(userQueue) pass no options: the queues
\* are declared without a dead-letter exchange and without a delivery limit.
DeadLetterConfigured == FALSE

\* Buffer.from(JSON.stringify(userData)) and Buffer.from(message); the
\* consumer's JSON.parse(msg.content.toString()) throws on a payload that is
\* no JSON text.
JSONstringify(userData) == [json |-> TRUE, body |-> userData]

BufferFrom(message) == [json |-> FALSE, body |-> message]

Parses(content) == content.json

JSONparse(content) == content.body

(***************************************************************************)
(* Broker (spec.md 3, 4.1-4.4).                                            *)
(***************************************************************************)
Range(s) == {s[k] : k \in 1..Len(s)}

\* The configured maximum of delivery_count of the PoisonMessage policy.
MaxDeliveryCount == 2

\* Mutant: every assertQueue declares a queue, already there or not.
AssertQueueAgain(reg, name) == Append(reg, name)

\* AssertQueue(name): idempotent create-if-absent.
AssertQueue(reg, name) == IF name \in Range(reg) THEN reg ELSE Append(reg, name)

\* Message Store: a Message with a fresh id, state Ready.
NewMessage(id, payload) == [id |-> id, payload |-> payload, delivery_count |-> 0]

\* Queue.Enqueue: appends to the tail of ready_sequence.
Enqueue(rdy, name, m) == [rdy EXCEPT ![name] = Append(@, m)]

\* Delivery Tracker TryReserve(n): the number reservable within the budget.
TryReserve(sess, n) ==
    IF sess.in_flight_count + n <= sess.prefetch_limit THEN n
    ELSE IF sess.prefetch_limit > sess.in_flight_count
         THEN sess.prefetch_limit - sess.in_flight_count
         ELSE 0

\* The in-flight entries of a queue held by a consumer.
HeldBy(name, cid) == {e \in inflight[name] : e.consumer = cid}

\* A set of messages as a sequence ordered by id.
RECURSIVE ById(_)
ById(ms) ==
    IF ms = {} THEN <<>>
    ELSE LET m == CHOOSE x \in ms : \A y \in ms : x.id <= y.id
         IN <<m>> \o ById(ms \ {m})

\* A message is poison once its delivery_count exceeds the maximum of a
\* queue that has a dead-letter path.
Poison(m) == DeadLetterConfigured /\ m.delivery_count > MaxDeliveryCount

\* Mutant: the messages of a closed session are discarded, not requeued.
RequeueDrops(rdy, name, ms) == rdy

\* Nack(requeue = true), Unsubscribe and ReapExpired: back to the tail of
\* ready_sequence, poison messages to the dead-letter path instead.
Requeue(rdy, name, ms) == [rdy EXCEPT ![name] = @ \o SelectSeq(ById(ms), LAMBDA m : ~Poison(m))]

DeadLetter(ms) == {m \in ms : Poison(m)}

(***************************************************************************)
(* The environment: whether it may cause a failure or a crash now.         *)
(***************************************************************************)
CanFail == faults > 0

SpendFault == IF faults >= Unlimited THEN faults ELSE faults - 1

(***************************************************************************)
(* connectWithRetry (producer/index.js 12-27, consumer/index.js 8-23).     *)
(* Svc(p) is the serviceName of the connectWithRetry process p is running. *)
(***************************************************************************)
Svc(p) == IF phase[p] = "db" THEN DbService(p) ELSE "RabbitMQ"

\* Mutant: the loop test off by one, `i <= maxRetries`.
LoopTestOffByOne(n) == n <= maxRetries

\* The loop test `i < maxRetries`.
LoopTest(n) == n < maxRetries

\* Mutant: the catch block sleeps after the last failed attempt too.
SleepsAfterEveryFailure(n) == TRUE

\* The test `i < maxRetries - 1` of the catch block.
SleepsBeforeRetry(n) == n < maxRetries - 1

\* The argument of sleep in the catch block at iteration n.
SleepArg(n) == delay

\* Whether the catch block at iteration i[p] is followed by the throw.
Exits(p) == ~SleepsBeforeRetry(i[p]) /\ ~LoopTest(i[p] + 1)

\* Mutant: the thrown Error is swallowed; the process keeps running with
\* startUp failed.
NextIterationNoExit(p, conns) ==
    /\ i' = [i EXCEPT ![p] = @ + 1]
    /\ IF i[p] + 1 < maxRetries
       THEN /\ calls' = [calls EXCEPT ![p][Svc(p)] = @ + 1]
            /\ pc' = [pc EXCEPT ![p] = "connect"]
            /\ openConns' = [openConns EXCEPT ![p] = conns]
            /\ UNCHANGED <<phase, retried, exitCode>>
       ELSE /\ pc' = [pc EXCEPT ![p] = "none"]
            /\ retried' = [retried EXCEPT ![p][Svc(p)] = "threw"]
            /\ openConns' = [openConns EXCEPT ![p] = conns]
            /\ UNCHANGED <<calls, phase, exitCode>>

\* i++ and the loop test: the next connectFn() is called, or the loop ends,
\* the Error is thrown, startUp rejects and the .catch handler of startUp()
\* exits the process with code 1 (no await lies between the throw and
\* process.exit, so no other callback of the process runs in between).
\* Exiting closes the process's connections.  `conns` are the connections
\* open before.
NextIteration(p, conns) ==
    /\ i' = [i EXCEPT ![p] = @ + 1]
    /\ IF LoopTest(i[p] + 1)
       THEN /\ calls' = [calls EXCEPT ![p][Svc(p)] = @ + 1]
            /\ pc' = [pc EXCEPT ![p] = "connect"]
            /\ openConns' = [openConns EXCEPT ![p] = conns]
            /\ UNCHANGED <<phase, retried, exitCode>>
       ELSE /\ pc' = [pc EXCEPT ![p] = "none"]
            /\ retried' = [retried EXCEPT ![p][Svc(p)] = "threw"]
            /\ phase' = [phase EXCEPT ![p] = "exited"]
            /\ exitCode' = [exitCode EXCEPT ![p] = 1]
            /\ openConns' = [openConns EXCEPT ![p] = 0]
            /\ UNCHANGED calls

\* connectFn threw at iteration i: the catch block, which sleeps unless this
\* was the last iteration.
Catch(p, conns) ==
    IF SleepsBeforeRetry(i[p])
    THEN /\ pc' = [pc EXCEPT ![p] = "sleep"]
         /\ waits' = [waits EXCEPT ![p][Svc(p)] = Append(@, SleepArg(i[p]))]
         /\ openConns' = [openConns EXCEPT ![p] = conns]
         /\ UNCHANGED <<phase, retried, exitCode, i, calls>>
    ELSE /\ NextIteration(p, conns)
         /\ UNCHANGED waits

\* `await sleep(delay)` resolves.
SleepDone(p) ==
    /\ phase[p] \in {"db", "mq"}
    /\ pc[p] = "sleep"
    /\ NextIteration(p, openConns[p])
    /\ UNCHANGED <<waits, channel, prodVars, consVars, envVars, brokerVars>>

(***************************************************************************)
(* startUp: the database connectFn (producer/index.js 31-34,               *)
(* consumer/index.js 27-29).                                               *)
(***************************************************************************)
\* Mutant: `return true` is missing; the loop goes on after the success.
DbConnectedNoReturn(p) ==
    /\ phase[p] = "db"
    /\ pc[p] = "connect"
    /\ retried' = [retried EXCEPT ![p][DbService(p)] = "true"]
    /\ i' = [i EXCEPT ![p] = @ + 1]
    /\ calls' = [calls EXCEPT ![p][DbService(p)] = @ + 1]
    /\ i[p] + 1 < maxRetries
    /\ UNCHANGED <<procVars, pc, waits, channel, prodVars, consVars, envVars, brokerVars>>

\* authenticate() / mongoose.connect() resolves: connectWithRetry returns
\* true and startUp calls the RabbitMQ connectWithRetry, whose first
\* connectFn() starts amqplib.connect.
DbConnected(p) ==
    /\ phase[p] = "db"
    /\ pc[p] = "connect"
    /\ retried' = [retried EXCEPT ![p][DbService(p)] = "true", ![p]["RabbitMQ"] = "pending"]
    /\ phase' = [phase EXCEPT ![p] = "mq"]
    /\ i' = [i EXCEPT ![p] = 0]
    /\ calls' = [calls EXCEPT ![p]["RabbitMQ"] = 1]
    /\ UNCHANGED <<exitCode, openConns, pc, waits, channel, prodVars, consVars, envVars,
                   brokerVars>>

\* Mutant: startUp does not wait for the outcome of the database
\* connectWithRetry; a rejected database connectFn call moves on to RabbitMQ.
DbFailedGoesOn(p) ==
    /\ phase[p] = "db"
    /\ pc[p] = "connect"
    /\ CanFail
    /\ faults' = SpendFault
    /\ retried' = [retried EXCEPT ![p]["RabbitMQ"] = "pending"]
    /\ phase' = [phase EXCEPT ![p] = "mq"]
    /\ i' = [i EXCEPT ![p] = 0]
    /\ calls' = [calls EXCEPT ![p]["RabbitMQ"] = 1]
    /\ UNCHANGED <<exitCode, openConns, pc, waits, channel, prodVars, consVars, crashes,
                   brokerVars>>

\* authenticate() / mongoose.connect() rejects.
DbFailed(p) ==
    /\ phase[p] = "db"
    /\ pc[p] = "connect"
    /\ CanFail
    /\ faults' = SpendFault
    /\ Catch(p, openConns[p])
    /\ UNCHANGED <<channel, prodVars, consVars, crashes, brokerVars>>

(***************************************************************************)
(* startUp: the RabbitMQ connectFn (producer/index.js 37-42,               *)
(* consumer/index.js 40-74).                                               *)
(***************************************************************************)
\* The producer's `channel` and unwritten messages after a failed attempt:
\* an exit discards them; otherwise a channel this attempt created is closed
\* (an RPC on it was rejected) and stays in the variable.
ChannelAfterFailure(p) ==
    IF p # "producer" THEN channel
    ELSE IF Exits(p) THEN Undefined
    ELSE IF pc[p] \in {"assertQueue", "assertUserQueue"} THEN [channel EXCEPT !.open = FALSE]
    ELSE channel

OutboxAfterFailure(p) ==
    IF p = "producer" /\ (Exits(p) \/ pc[p] \in {"assertQueue", "assertUserQueue"})
    THEN <<>> ELSE outbox

\* amqplib.connect resolves.
MqConnected(p) ==
    /\ phase[p] = "mq"
    /\ pc[p] = "connect"
    /\ openConns' = [openConns EXCEPT ![p] = @ + 1]
    /\ pc' = [pc EXCEPT ![p] = "createChannel"]
    /\ UNCHANGED <<phase, exitCode, i, calls, waits, retried, channel, prodVars, consVars,
                   envVars, brokerVars>>

\* amqplib.connect rejects: no connection was opened.
MqConnectFailed(p) ==
    /\ phase[p] = "mq"
    /\ pc[p] = "connect"
    /\ CanFail
    /\ faults' = SpendFault
    /\ Catch(p, openConns[p])
    /\ channel' = ChannelAfterFailure(p)
    /\ outbox' = OutboxAfterFailure(p)
    /\ UNCHANGED <<http, consVars, crashes, brokerVars>>

\* conn.createChannel() resolves; the producer stores it in `channel`, the
\* consumer in the local ch1.
ChannelCreated(p) ==
    /\ phase[p] = "mq"
    /\ pc[p] = "createChannel"
    /\ channel' = IF p = "producer" THEN NewChannel ELSE channel
    /\ pc' = [pc EXCEPT ![p] = "assertQueue"]
    /\ UNCHANGED <<procVars, i, calls, waits, retried, prodVars, consVars, envVars,
                   brokerVars>>

\* The consumer id (consumer tag) of a consume call of the consumer process:
\* the queue, the run of the process and the RabbitMQ attempt that issues
\* the call, so that two consume calls never share an id.
ConsumerId(name) == <<name, crashes, calls["consumer"]["RabbitMQ"]>>

\* Subscribe(queue_name, prefetch_limit): a Consumer Session, state Active.
Subscribe(name, limit) ==
    [id |-> ConsumerId(name), queue |-> name, prefetch_limit |-> limit, in_flight_count |-> 0,
     state |-> "Active"]

\* Mutant: the consumer registers the consumer of `queue` right after the
\* first assertQueue, before assertQueue(userQueue) has resolved.
QueueAssertedConsumes(p) ==
    /\ phase[p] = "mq"
    /\ pc[p] = "assertQueue"
    /\ registry' = AssertQueue(registry, queue)
    /\ channel' = IF p = "producer" THEN [channel EXCEPT !.asserted = @ \cup {queue}]
                                     ELSE channel
    /\ sessions' = IF p = "consumer" THEN sessions \cup {Subscribe(queue, prefetch)}
                                      ELSE sessions
    /\ pc' = [pc EXCEPT ![p] = "assertUserQueue"]
    /\ UNCHANGED <<procVars, i, calls, waits, retried, prodVars, consVars, envVars,
                   ready, inflight, nextId, dead>>

\* assertQueue(queue) resolves.
QueueAsserted(p) ==
    /\ phase[p] = "mq"
    /\ pc[p] = "assertQueue"
    /\ registry' = AssertQueue(registry, queue)
    /\ channel' = IF p = "producer" THEN [channel EXCEPT !.asserted = @ \cup {queue}]
                                     ELSE channel
    /\ pc' = [pc EXCEPT ![p] = "assertUserQueue"]
    /\ UNCHANGED <<procVars, i, calls, waits, retried, prodVars, consVars, envVars, msgVars>>

\* createChannel or an assertQueue rejects.  The connection this attempt
\* opened is never closed by the code: it stays open unless the failure was
\* the loss of the connection itself.
MqStepFailed(p) ==
    /\ phase[p] = "mq"
    /\ pc[p] \in {"createChannel", "assertQueue", "assertUserQueue"}
    /\ CanFail
    /\ faults' = SpendFault
    /\ \E lost \in BOOLEAN : Catch(p, IF lost THEN openConns[p] - 1 ELSE openConns[p])
    /\ channel' = ChannelAfterFailure(p)
    /\ outbox' = OutboxAfterFailure(p)
    /\ UNCHANGED <<http, consVars, crashes, brokerVars>>

\* Producer: assertQueue(userQueue) resolves, connectFn returns,
\* connectWithRetry returns true and startUp resolves.
ProducerReady ==
    /\ phase["producer"] = "mq"
    /\ pc["producer"] = "assertUserQueue"
    /\ registry' = AssertQueue(registry, userQueue)
    /\ channel' = [channel EXCEPT !.asserted = @ \cup {userQueue}]
    /\ retried' = [retried EXCEPT !["producer"]["RabbitMQ"] = "true"]
    /\ phase' = [phase EXCEPT !["producer"] = "up"]
    /\ pc' = [pc EXCEPT !["producer"] = "none"]
    /\ UNCHANGED <<exitCode, openConns, i, calls, waits, prodVars, consVars, envVars, msgVars>>

\* Consumer: assertQueue(userQueue) resolves; prefetch(1) and the two
\* consume calls are issued without an await in between; connectFn returns,
\* connectWithRetry returns true and startUp resolves.
ConsumerReady ==
    /\ phase["consumer"] = "mq"
    /\ pc["consumer"] = "assertUserQueue"
    /\ registry' = AssertQueue(registry, userQueue)
    /\ sessions' = sessions \cup {Subscribe(queue, prefetch), Subscribe(userQueue, prefetch)}
    /\ retried' = [retried EXCEPT !["consumer"]["RabbitMQ"] = "true"]
    /\ phase' = [phase EXCEPT !["consumer"] = "up"]
    /\ pc' = [pc EXCEPT !["consumer"] = "none"]
    /\ UNCHANGED <<exitCode, openConns, i, calls, waits, channel, prodVars, consVars, envVars,
                   ready, inflight, nextId, dead>>

(***************************************************************************)
(* Broker: delivery, acknowledgment, reaping (spec.md 4.2-4.4, 5).         *)
(***************************************************************************)
\* The session's connection is open: its process runs the run that subscribed.
Connected(sess) == phase["consumer"] = "up" /\ sess.id[2] = crashes

\* The message DequeueFor hands out: delivery_count incremented.
Delivered(m) == [m EXCEPT !.delivery_count = @ + 1]

\* Push delivery: DequeueFor(consumer, 1) within the budget TryReserve
\* grants; the message travels to the consumer's callback.
Deliver(sess) ==
    /\ sess \in sessions
    /\ Connected(sess)
    /\ sess.state = "Active"
    /\ TryReserve(sess, 1) >= 1
    /\ ready[sess.queue] # <<>>
    /\ LET m == Delivered(Head(ready[sess.queue])) IN
        /\ ready' = [ready EXCEPT ![sess.queue] = Tail(@)]
        /\ inflight' = [inflight EXCEPT ![sess.queue] = @ \cup {[msg |-> m, consumer |-> sess.id]}]
        /\ sessions' = (sessions \ {sess}) \cup {[sess EXCEPT !.in_flight_count = @ + 1]}
        /\ handling' = handling \cup {[msg |-> m, consumer |-> sess.id, st |-> "delivered"]}
    /\ UNCHANGED <<procVars, retryVars, channel, prodVars, saved, acked, envVars,
                   registry, nextId, dead>>

\* Queue.Ack's answer: UnknownMessage unless the id is in flight for the consumer.
AckResult(cid, id) ==
    IF \E e \in HeldBy(cid[1], cid) : e.msg.id = id THEN "ok" ELSE "UnknownMessage"

\* Queue.Ack: removes the entry from in_flight if owned by the consumer.
AckInflight(cid, id) ==
    [inflight EXCEPT ![cid[1]] = {e \in @ : ~(e.consumer = cid /\ e.msg.id = id)}]

\* Delivery Tracker Release(1) after an Ack that was not UnknownMessage.
AckSessions(cid, id) ==
    IF AckResult(cid, id) = "ok"
    THEN {IF x.id = cid THEN [x EXCEPT !.in_flight_count = @ - 1] ELSE x : x \in sessions}
    ELSE sessions

\* The sessions of a run of the consumer process: the consumers of its channel.
SessionsOf(run) == {x \in sessions : x.id[2] = run}

\* The messages in flight for the sessions of a run, per queue.
HeldByRun(name, run) == {e \in inflight[name] : e.consumer[2] = run}

\* Mutant: the messages of a closed session are requeued but stay recorded
\* as in flight for it.
ReapExpiredKeepsInFlight(run) ==
    /\ SessionsOf(run) # {}
    /\ \A x \in SessionsOf(run) : ~Connected(x)
    /\ ready' = [q \in QueueNames |->
                    Requeue(ready, q, {e.msg : e \in HeldByRun(q, run)})[q]]
    /\ sessions' = sessions \ SessionsOf(run)
    /\ UNCHANGED <<procVars, retryVars, channel, prodVars, consVars, envVars, registry, nextId,
                   inflight, dead>>

\* ReapExpired / Unsubscribe for a connection that is gone: the in-flight
\* messages of its consumers are requeued and their sessions closed.
ReapExpired(run) ==
    /\ SessionsOf(run) # {}
    /\ \A x \in SessionsOf(run) : ~Connected(x)
    /\ ready' = [q \in QueueNames |->
                    Requeue(ready, q, {e.msg : e \in HeldByRun(q, run)})[q]]
    /\ dead' = dead \cup UNION {DeadLetter({e.msg : e \in HeldByRun(q, run)}) : q \in QueueNames}
    /\ inflight' = [q \in QueueNames |-> inflight[q] \ HeldByRun(q, run)]
    /\ sessions' = sessions \ SessionsOf(run)
    /\ UNCHANGED <<procVars, retryVars, channel, prodVars, consVars, envVars, registry, nextId>>

(***************************************************************************)
(* Consumer: the consume handlers (consumer/index.js 54-73).               *)
(***************************************************************************)
\* ch1.ack(msg), as the broker answers it.
ChannelAck(h) ==
    /\ acked' = Append(acked, [msg |-> h.msg, queue |-> h.consumer[1],
                                result |-> AckResult(h.consumer, h.msg.id)])
    /\ inflight' = AckInflight(h.consumer, h.msg.id)
    /\ sessions' = AckSessions(h.consumer, h.msg.id)

\* Mutant: the handler of `queue` acks the message twice.
OnTaskAcksTwice(h) ==
    /\ h \in handling
    /\ h.consumer[1] = queue
    /\ h.st = "delivered"
    /\ acked' = acked \o <<[msg |-> h.msg, queue |-> queue,
                              result |-> AckResult(h.consumer, h.msg.id)],
                            [msg |-> h.msg, queue |-> queue, result |-> "UnknownMessage"]>>
    /\ inflight' = AckInflight(h.consumer, h.msg.id)
    /\ sessions' = AckSessions(h.consumer, h.msg.id)
    /\ handling' = handling \ {h}
    /\ UNCHANGED <<procVars, retryVars, channel, prodVars, saved, envVars, registry, ready,
                   nextId, dead>>

\* Mutant: the handler of `queue` logs the message and does not ack it.
OnTaskNoAck(h) ==
    /\ h \in handling
    /\ h.consumer[1] = queue
    /\ h.st = "delivered"
    /\ handling' = handling \ {h}
    /\ UNCHANGED <<procVars, retryVars, channel, prodVars, saved, acked, envVars, brokerVars>>

\* The handler of `queue` is called with a message: it logs and acks it.
OnTask(h) ==
    /\ h \in handling
    /\ h.consumer[1] = queue
    /\ h.st = "delivered"
    /\ ChannelAck(h)
    /\ handling' = handling \ {h}
    /\ UNCHANGED <<procVars, retryVars, channel, prodVars, saved, envVars, registry, ready,
                   nextId, dead>>

\* The server cancels a consumer and its handler is called with null: the
\* `else` branch logs and does nothing else.  The session gets no further
\* delivery; what it holds stays in flight on the channel and can be acked.
Cancelled(sess) ==
    /\ sess \in sessions
    /\ Connected(sess)
    /\ sess.state = "Active"
    /\ CanFail
    /\ faults' = SpendFault
    /\ sessions' = (sessions \ {sess}) \cup {[sess EXCEPT !.state = "Draining"]}
    /\ UNCHANGED <<procVars, retryVars, channel, prodVars, consVars, crashes, registry, ready,
                   inflight, nextId, dead>>

\* The handler of userQueue is called with a message: JSON.parse throws and
\* the handler's promise rejects, or user.save() is started and awaited.
OnUser(h) ==
    /\ h \in handling
    /\ h.consumer[1] = userQueue
    /\ h.st = "delivered"
    /\ handling' = IF Parses(h.msg.payload)
                    THEN (handling \ {h}) \cup {[h EXCEPT !.st = "saving"]}
                    ELSE handling \ {h}
    /\ UNCHANGED <<procVars, retryVars, channel, prodVars, saved, acked, envVars, brokerVars>>

\* Mutant: the ack in a `finally`, taken whether or not the save resolved.
AcksAfterSaveAlways(ok) == TRUE

\* What the handler does once user.save() has settled: ack after a save
\* that resolved, nothing after one that rejected.
AcksAfterSave(ok) == ok

\* user.save() settles.
SaveSettled(h) ==
    /\ h \in handling
    /\ h.st = "saving"
    /\ \E ok \in BOOLEAN :
        /\ saved' = IF ok THEN Append(saved, [user |-> JSONparse(h.msg.payload), id |-> h.msg.id])
                          ELSE saved
        /\ IF AcksAfterSave(ok) THEN ChannelAck(h) ELSE UNCHANGED <<acked, inflight, sessions>>
    /\ handling' = handling \ {h}
    /\ UNCHANGED <<procVars, retryVars, channel, prodVars, envVars, registry, ready,
                   nextId, dead>>

(***************************************************************************)
(* Producer: sendMessage and the routes (producer/index.js 45-115).        *)
(***************************************************************************)
\* Broker.Publish: a fresh Message at the tail of the queue; a message for a
\* queue that was never asserted is not routed to any queue.
Publish(rdy, name, content, id) ==
    IF name \in Range(registry) THEN Enqueue(rdy, name, NewMessage(id, content)) ELSE rdy

\* The next fresh id after Publish.
PublishId(name, id) == IF name \in Range(registry) THEN id + 1 ELSE id

\* channel.sendToQueue(name, content): "threw" on a missing or closed
\* channel, "false" when the write buffer is full, "true" otherwise.
SendToQueueResult(full) ==
    IF ~channel.set \/ ~channel.open THEN "threw"
    ELSE IF full THEN "false" ELSE "true"

\* channel.sendToQueue(name, content): the message is written to the socket
\* and published, or kept in the write buffer behind the ones already there.
SendToQueue(name, content, full) ==
    IF SendToQueueResult(full) = "threw"
    THEN UNCHANGED <<outbox, ready, nextId>>
    ELSE IF full \/ outbox # <<>>
    THEN /\ outbox' = Append(outbox, [queue |-> name, content |-> content])
         /\ UNCHANGED <<ready, nextId>>
    ELSE /\ ready' = Publish(ready, name, content, nextId)
         /\ nextId' = PublishId(name, nextId)
         /\ UNCHANGED outbox

\* The socket drains: the oldest buffered message is written and published.
Flush ==
    /\ outbox # <<>>
    /\ phase["producer"] \in {"db", "mq", "up"}
    /\ ready' = Publish(ready, Head(outbox).queue, Head(outbox).content, nextId)
    /\ nextId' = PublishId(Head(outbox).queue, nextId)
    /\ outbox' = Tail(outbox)
    /\ UNCHANGED <<procVars, retryVars, channel, http, consVars, envVars, registry, inflight,
                   sessions, dead>>

\* The server answers requests while the process runs.
Listening == phase["producer"] \in {"db", "mq", "up"}

\* The model handles a request only while message ids are left.
Accepting == nextId + Len(outbox) <= MaxMessages

\* Whether the write buffer may be full now.
Fulls == IF CanFail THEN BOOLEAN ELSE {FALSE}

\* sendMessage(message): "none" when `channel` is not set and sendToQueue is
\* not called, else the result of sendToQueue.
SendMessageSent(full) == IF ~channel.set THEN "none" ELSE SendToQueueResult(full)

\* Mutant: the `!channel` branch of sendMessage does not return false.
SendMessageReturnsWithoutChannel(sent) == sent \in {"true", "none"}

\* The value sendMessage returns.
SendMessageReturns(sent) == sent = "true"

\* Mutant: only an exception counts as a failure, a false result does not.
SendStatusUnlessThrown(sent) == IF sent \in {"none", "threw"} THEN 500 ELSE 200

\* The status of the response of GET / and GET /send.
SendStatus(sent) == IF SendMessageReturns(sent) THEN 200 ELSE 500

\* GET / and GET /send: sendMessage(message) and the response.
SendMessage(route, message) ==
    /\ Listening
    /\ Accepting
    /\ \E full \in Fulls :
        /\ IF channel.set THEN SendToQueue(queue, BufferFrom(message), full)
                          ELSE UNCHANGED <<outbox, ready, nextId>>
        /\ http' = [route |-> route, sent |-> SendMessageSent(full),
                    status |-> SendStatus(SendMessageSent(full))]
        /\ faults' = IF full THEN SpendFault ELSE faults
    /\ UNCHANGED <<procVars, retryVars, channel, consVars, crashes, registry, inflight,
                   sessions, dead>>

GetRoot == SendMessage("GET /", "something to do")

\* req.query.msg, "" for a request without it.
QueryMsgs == {""}

GetSend == \E msg \in QueryMsgs :
    SendMessage("GET /send", IF msg = "" THEN "default message" ELSE msg)

\* req.body, NoBody for an undefined one.
NoBody == "undefined"

Bodies == {NoBody, "alice"}

\* Mutant: only an exception counts as a failure of POST /user.
UserStatusUnlessThrown(sent) == IF sent = "threw" THEN 500 ELSE 200

\* The status of the response of POST /user.
UserStatus(sent) == IF sent = "true" THEN 200 ELSE 500

\* POST /user.
PostUser ==
    /\ Listening
    /\ Accepting
    /\ \E userData \in Bodies :
        IF userData = NoBody
        THEN /\ http' = [route |-> "POST /user", sent |-> "none", status |-> 400]
             /\ UNCHANGED <<outbox, ready, nextId, faults>>
        ELSE \E full \in Fulls :
             /\ SendToQueue(userQueue, JSONstringify(userData), full)
             /\ http' = [route |-> "POST /user", sent |-> SendToQueueResult(full),
                         status |-> UserStatus(SendToQueueResult(full))]
             /\ faults' = IF full THEN SpendFault ELSE faults
    /\ UNCHANGED <<procVars, retryVars, channel, consVars, crashes, registry, inflight,
                   sessions, dead>>

\* Another client of the broker publishes a payload that is no JSON text to
\* userQueue.
ForeignPublish ==
    /\ Accepting
    /\ userQueue \in Range(registry)
    /\ ready' = Publish(ready, userQueue, BufferFrom("not json"), nextId)
    /\ nextId' = nextId + 1
    /\ UNCHANGED <<procVars, retryVars, channel, prodVars, consVars, envVars, registry,
                   inflight, sessions, dead>>

(***************************************************************************)
(* Processes: start, crash, restart.                                       *)
(***************************************************************************)
Running(p) == phase[p] \in {"db", "mq", "up"}

\* `node index.js` of the consumer, first or as the restart of its exited
\* container: the module is loaded, startUp() is called and runs to its first
\* await, inside the first connectFn of the database connectWithRetry.
Start ==
    /\ phase["consumer"] = "off" \/ (phase["consumer"] = "exited" /\ exitCode["consumer"] # 0)
    /\ phase' = [phase EXCEPT !["consumer"] = "db"]
    /\ exitCode' = [exitCode EXCEPT !["consumer"] = -1]
    /\ i' = [i EXCEPT !["consumer"] = 0]
    /\ pc' = [pc EXCEPT !["consumer"] = "connect"]
    /\ calls' = [calls EXCEPT !["consumer"] = [s \in Services |-> IF s = "MongoDB" THEN 1 ELSE 0]]
    /\ waits' = [waits EXCEPT !["consumer"] = [s \in Services |-> <<>>]]
    /\ retried' = [retried EXCEPT
                      !["consumer"] = [s \in Services |-> IF s = "MongoDB" THEN "pending" ELSE "none"]]
    /\ UNCHANGED <<openConns, channel, prodVars, consVars, envVars, brokerVars>>

\* The consumer process dies (killed, an uncaught exception, an unhandled
\* rejection, an 'error' event of a lost connection): its memory and its
\* connections are gone; the broker still holds its sessions.
Crash ==
    /\ Running("consumer")
    /\ CanFail
    /\ faults' = SpendFault
    /\ crashes' = crashes + 1
    /\ phase' = [phase EXCEPT !["consumer"] = "exited"]
    /\ exitCode' = [exitCode EXCEPT !["consumer"] = 1]
    /\ openConns' = [openConns EXCEPT !["consumer"] = 0]
    /\ pc' = [pc EXCEPT !["consumer"] = "none"]
    /\ handling' = {}
    /\ i' = [i EXCEPT !["consumer"] = 0]
    /\ calls' = [calls EXCEPT !["consumer"] = [s \in Services |-> 0]]
    /\ waits' = [waits EXCEPT !["consumer"] = [s \in Services |-> <<>>]]
    /\ retried' = [retried EXCEPT !["consumer"] = [s \in Services |-> "none"]]
    /\ UNCHANGED <<channel, prodVars, saved, acked, brokerVars>>

(***************************************************************************)
(* Initial states and specifications.                                      *)
(***************************************************************************)
NoRequest == [route |-> "none", sent |-> "none", status |-> 0]

\* Nothing runs yet; the broker holds no queue.
InitCommon ==
    /\ exitCode = [p \in Procs |-> -1]
    /\ openConns = [p \in Procs |-> 0]
    /\ channel = Undefined
    /\ outbox = <<>>
    /\ http = NoRequest
    /\ handling = {}
    /\ saved = <<>>
    /\ acked = <<>>
    /\ crashes = 0
    /\ registry = <<>>
    /\ ready = [q \in QueueNames |-> <<>>]
    /\ inflight = [q \in QueueNames |-> {}]
    /\ sessions = {}
    /\ nextId = 1
    /\ dead = {}

\* The processes in `started` have been launched, the others not.
InitProcs(started) ==
    /\ phase = [p \in Procs |-> IF p \in started THEN "db" ELSE "off"]
    /\ i = [p \in Procs |-> 0]
    /\ pc = [p \in Procs |-> IF p \in started THEN "connect" ELSE "none"]
    /\ calls = [p \in Procs |-> [s \in Services |->
                    IF p \in started /\ s = DbService(p) THEN 1 ELSE 0]]
    /\ waits = [p \in Procs |-> [s \in Services |-> <<>>]]
    /\ retried = [p \in Procs |-> [s \in Services |->
                    IF p \in started /\ s = DbService(p) THEN "pending" ELSE "none"]]

\* The producer has been launched, the consumer not yet.
Init ==
    /\ InitCommon
    /\ InitProcs({"producer"})
    /\ faults = MaxFaults

\* The steps of startUp of process p.
StartUpStep(p) ==
    \/ SleepDone(p)
    \/ DbConnected(p)
    \/ DbFailed(p)
    \/ MqConnected(p)
    \/ MqConnectFailed(p)
    \/ ChannelCreated(p)
    \/ QueueAsserted(p)
    \/ MqStepFailed(p)
    \/ (p = "producer" /\ ProducerReady)
    \/ (p = "consumer" /\ ConsumerReady)

Next ==
    \/ Start
    \/ Crash
    \/ \E p \in Procs : SleepDone(p)
    \/ \E p \in Procs : DbConnected(p)
    \/ \E p \in Procs : DbFailed(p)
    \/ \E p \in Procs : MqConnected(p)
    \/ \E p \in Procs : MqConnectFailed(p)
    \/ \E p \in Procs : ChannelCreated(p)
    \/ \E p \in Procs : QueueAsserted(p)
    \/ \E p \in Procs : MqStepFailed(p)
    \/ ProducerReady
    \/ ConsumerReady
    \/ GetRoot
    \/ GetSend
    \/ PostUser
    \/ Flush
    \/ ForeignPublish
    \/ \E sess \in sessions : Deliver(sess)
    \/ \E run \in 0..MaxFaults : ReapExpired(run)
    \/ \E sess \in sessions : Cancelled(sess)
    \/ \E h \in handling : OnTask(h)
    \/ \E h \in handling : OnUser(h)
    \/ \E h \in handling : SaveSettled(h)

Spec == Init /\ [][Next]_vars

\* The consumer against a producer whose startUp has resolved at its first
\* attempts: `channel` is set and both queues are asserted.
ConsumeInit ==
    /\ phase = [p \in Procs |-> IF p = "producer" THEN "up" ELSE "off"]
    /\ exitCode = [p \in Procs |-> -1]
    /\ openConns = [p \in Procs |-> IF p = "producer" THEN 1 ELSE 0]
    /\ i = [p \in Procs |-> 0]
    /\ pc = [p \in Procs |-> "none"]
    /\ calls = [p \in Procs |-> [s \in Services |->
                    IF p = "producer" /\ s \in {DbService(p), "RabbitMQ"} THEN 1 ELSE 0]]
    /\ waits = [p \in Procs |-> [s \in Services |-> <<>>]]
    /\ retried = [p \in Procs |-> [s \in Services |->
                    IF p = "producer" /\ s \in {DbService(p), "RabbitMQ"} THEN "true" ELSE "none"]]
    /\ channel = [NewChannel EXCEPT !.asserted = {queue, userQueue}]
    /\ outbox = <<>>
    /\ http = NoRequest
    /\ handling = {}
    /\ saved = <<>>
    /\ acked = <<>>
    /\ faults = MaxFaults
    /\ crashes = 0
    /\ registry = <<queue, userQueue>>
    /\ ready = [q \in QueueNames |-> <<>>]
    /\ inflight = [q \in QueueNames |-> {}]
    /\ sessions = {}
    /\ nextId = 1
    /\ dead = {}

ConsumeNext ==
    \/ Start
    \/ Crash
    \/ SleepDone("consumer")
    \/ DbConnected("consumer")
    \/ DbFailed("consumer")
    \/ MqConnected("consumer")
    \/ MqConnectFailed("consumer")
    \/ ChannelCreated("consumer")
    \/ QueueAsserted("consumer")
    \/ MqStepFailed("consumer")
    \/ ConsumerReady
    \/ GetRoot
    \/ PostUser
    \/ Flush
    \/ ForeignPublish
    \/ \E sess \in sessions : Deliver(sess)
    \/ \E run \in 0..MaxFaults : ReapExpired(run)
    \/ \E sess \in sessions : Cancelled(sess)
    \/ \E h \in handling : OnTask(h)
    \/ \E h \in handling : OnUser(h)
    \/ \E h \in handling : SaveSettled(h)

ConsumeSpec == ConsumeInit /\ [][ConsumeNext]_vars

\* Every await settles, every timer fires, the broker delivers and reaps,
\* the socket drains and an exited consumer container is restarted.
FairConsumeSpec ==
    /\ ConsumeSpec
    /\ WF_vars(StartUpStep("consumer"))
    /\ WF_vars(Start)
    /\ WF_vars(Flush)
    /\ WF_vars(\E sess \in sessions : Deliver(sess))
    /\ WF_vars(\E run \in 0..MaxFaults : ReapExpired(run))
    /\ WF_vars(\E h \in handling : OnTask(h) \/ OnUser(h) \/ SaveSettled(h))

\* startUp of one process alone, where every attempt may fail.
StartInit ==
    /\ InitCommon
    /\ \E p \in Procs : InitProcs({p})
    /\ faults = Unlimited

StartNext ==
    \/ \E p \in Procs : SleepDone(p)
    \/ \E p \in Procs : DbConnected(p)
    \/ \E p \in Procs : DbFailed(p)
    \/ \E p \in Procs : MqConnected(p)
    \/ \E p \in Procs : MqConnectFailed(p)
    \/ \E p \in Procs : ChannelCreated(p)
    \/ \E p \in Procs : QueueAsserted(p)
    \/ \E p \in Procs : MqStepFailed(p)
    \/ ProducerReady
    \/ ConsumerReady

StartSpec == StartInit /\ [][StartNext]_vars

\* Every await of startUp settles and every sleep timer fires.
FairStartSpec == StartSpec /\ \A p \in Procs : WF_vars(StartUpStep(p))

(***************************************************************************)
(* Properties.                                                             *)
(***************************************************************************)
\* C1: connectWithRetry calls connectFn at most maxRetries times, and it
\* throws only after maxRetries calls of connectFn, each of which failed
\* (all but the last followed by a sleep), never after a success.
C1_BoundedRetry ==
    \A p \in Procs, s \in Services :
        /\ calls[p][s] <= maxRetries
        /\ retried[p][s] = "threw" =>
               /\ calls[p][s] = maxRetries
               /\ Len(waits[p][s]) = maxRetries - 1
               /\ phase[p] = "exited"

\* C1: a connectWithRetry has thrown after its attempts were used up.
C1_Witness ==
    \E p \in Procs :
        /\ retried[p]["RabbitMQ"] = "threw"
        /\ calls[p]["RabbitMQ"] = maxRetries
        /\ retried[p][DbService(p)] = "true"

\* C2: each wait of a connectWithRetry is longer than the one before it
\* (exponential backoff).
C2_ExponentialBackoff ==
    \A p \in Procs, s \in Services :
        \A k \in 2..Len(waits[p][s]) : waits[p][s][k] > waits[p][s][k - 1]

\* C3: the step in which the database connectFn succeeds makes
\* connectWithRetry return true, and once a connectWithRetry has returned
\* true it calls connectFn no more and sleeps no more.
C3_ReturnsAtFirstSuccess ==
    [][\A p \in Procs :
          /\ DbConnected(p) => retried'[p][DbService(p)] = "true"
          /\ \A s \in Services :
                retried[p][s] = "true" =>
                   /\ retried'[p][s] = "true"
                   /\ calls'[p][s] = calls[p][s]
                   /\ waits'[p][s] = waits[p][s]]_vars

\* C3: a connectWithRetry has returned true after failed attempts, and
\* startUp has gone on to the next connection.
C3_Witness ==
    \E p \in Procs :
        /\ retried[p][DbService(p)] = "true"
        /\ calls[p][DbService(p)] > 1
        /\ calls[p]["RabbitMQ"] > 1

\* The verdict of startUp of p: both connections established, or one
\* connectWithRetry exhausted and the process exited with code 1.
Verdict(p) ==
    \/ /\ phase[p] = "up"
       /\ retried[p][DbService(p)] = "true"
       /\ retried[p]["RabbitMQ"] = "true"
    \/ /\ phase[p] = "exited"
       /\ exitCode[p] = 1
       /\ \E s \in Services : retried[p][s] = "threw"

\* C4: every startUp that was started eventually reaches its verdict.
C4_StartUpReachesVerdict == \A p \in Procs : phase[p] \in {"db", "mq"} ~> Verdict(p)

\* C4: startUp has failed and the process has exited with code 1.
C4_Witness ==
    \E p \in Procs :
        /\ phase[p] = "exited"
        /\ exitCode[p] = 1
        /\ retried[p]["RabbitMQ"] = "threw"
        /\ openConns[p] = 0

\* The acks of the messages of a queue, in the order the consumer sent them.
AckedOf(name) == SelectSeq(acked, LAMBDA a : a.queue = name)

\* C5: every userQueue message the consumer has acked had its payload parsed
\* and the User made of it saved, and the handler acks only in the step in
\* which the save of that very message resolved: a message whose parse or
\* save fails is not acked.
C5_AckOnlyAfterSave ==
    /\ [](\A k \in 1..Len(acked) :
            acked[k].queue = userQueue =>
               /\ Parses(acked[k].msg.payload)
               /\ \E j \in 1..Len(saved) :
                     /\ saved[j].id = acked[k].msg.id
                     /\ saved[j].user = JSONparse(acked[k].msg.payload))
    /\ [][(Len(acked') > Len(acked) /\ acked'[Len(acked')].queue = userQueue) =>
             /\ Len(saved') > Len(saved)
             /\ saved'[Len(saved')].id = acked'[Len(acked')].msg.id]_vars

\* C5: one userQueue message was saved and acked, and a later one whose
\* handler failed is left unacked with the consumer still up.
C5_Witness ==
    /\ phase["consumer"] = "up"
    /\ \E k \in 1..Len(acked) : acked[k].queue = userQueue /\ acked[k].result = "ok"
    /\ \E e \in inflight[userQueue] :
          /\ e.consumer = ConsumerId(userQueue)
          /\ \A h \in handling : h.msg.id # e.msg.id
          /\ \A k \in 1..Len(acked) : acked[k].msg.id # e.msg.id

\* The number of places (ready positions and in-flight entries of any queue)
\* that hold the message `id`.
Occurrences(id) ==
    LET InReady(q) == Cardinality({k \in 1..Len(ready[q]) : ready[q][k].id = id})
        InFlight(q) == Cardinality({e \in inflight[q] : e.msg.id = id})
    IN InReady(queue) + InFlight(queue) + InReady(userQueue) + InFlight(userQueue)

\* The broker answered an ack of the message `id` with ok.
AckedOk(id) == \E k \in 1..Len(acked) : acked[k].msg.id = id /\ acked[k].result = "ok"

\* The message `id` of queue q was delivered to a run of the consumer that
\* has ended, and has not been delivered again since.
Orphaned(q, id) ==
    \/ \E e \in inflight[q] : e.msg.id = id /\ e.consumer[2] < crashes
    \/ \E k \in 1..Len(ready[q]) : ready[q][k].id = id /\ ready[q][k].delivery_count > 0

\* The message `id` of queue q is in flight for the running consumer.
Redelivered(q, id) ==
    /\ phase["consumer"] = "up"
    /\ \E e \in inflight[q] : e.msg.id = id /\ e.consumer = ConsumerId(q)

\* The running consumer of q is not eligible for a delivery: its prefetch
\* budget is used up by a message whose handler has ended without an ack, or
\* the server has cancelled it.
NotEligible(q) ==
    /\ phase["consumer"] = "up"
    /\ \/ \E e \in inflight[q] :
             /\ e.consumer = ConsumerId(q)
             /\ \A h \in handling : h.msg.id # e.msg.id
       \/ \E sess \in sessions : sess.id = ConsumerId(q) /\ sess.state = "Draining"

\* C6: a message the consumer received is not lost when the consumer crashes
\* before acking it: until it is acked it is held in exactly one place, ready
\* or in flight; it has been delivered at most once per run of the consumer;
\* and once its consumer is gone it is eventually delivered again to the
\* restarted consumer, unless that consumer is not eligible for a delivery.
C6_AtLeastOnce ==
    /\ [](\A id \in 1..(nextId - 1) : Occurrences(id) = IF AckedOk(id) THEN 0 ELSE 1)
    /\ [](\A q \in QueueNames :
            /\ \A e \in inflight[q] : e.msg.delivery_count <= e.consumer[2] + 1
            /\ \A k \in 1..Len(ready[q]) : ready[q][k].delivery_count <= crashes)
    /\ \A q \in QueueNames : \A id \in 1..(MaxMessages + 1) :
          Orphaned(q, id) ~> (Redelivered(q, id) \/ NotEligible(q))

\* C6: a message that was in flight when the consumer crashed is in flight
\* again, delivered a second time, for the restarted consumer.
C6_Witness ==
    /\ phase["consumer"] = "up"
    /\ crashes > 0
    /\ \E q \in QueueNames : \E e \in inflight[q] :
          /\ e.consumer = ConsumerId(q)
          /\ e.msg.delivery_count = 2
          /\ \E h \in handling : h.msg = e.msg

\* C7: with prefetch(1) each consumer holds at most one delivered and
\* unacked message, so at most one user creation is in progress and the
\* next userQueue message is delivered only after the one before was acked.
C7_PrefetchRespected ==
    /\ \A sess \in sessions :
          /\ sess.in_flight_count <= 1
          /\ Cardinality(HeldBy(sess.queue, sess.id)) <= 1
    /\ Cardinality({h \in handling : h.consumer[1] = userQueue}) <= 1

\* C7: a user creation is in progress and the next userQueue message waits
\* in the queue for the ack.
C7_Witness ==
    /\ \E h \in handling : h.consumer = ConsumerId(userQueue) /\ h.st = "saving"
    /\ \E sess \in sessions :
          /\ sess.id = ConsumerId(userQueue)
          /\ Connected(sess)
          /\ sess.in_flight_count = 1
    /\ ready[userQueue] # <<>>

\* No message has been delivered a second time.
NoRedelivery ==
    /\ \A q \in QueueNames :
          /\ \A k \in 1..Len(ready[q]) : ready[q][k].delivery_count = 0
          /\ \A e \in inflight[q] : e.msg.delivery_count = 1
    /\ \A k \in 1..Len(acked) : acked[k].msg.delivery_count = 1

\* C8: ids follow the order of publishing to the broker.  As long as nothing
\* was redelivered, every message of a queue that was delivered was published
\* before every message still waiting in it, the consumer has handled the
\* messages of each queue in publish order, and it has saved the users in
\* publish order.
C8_Fifo ==
    NoRedelivery =>
        /\ \A q \in QueueNames : \A k \in 1..Len(ready[q]) :
              /\ \A e \in inflight[q] : e.msg.id < ready[q][k].id
              /\ \A j \in 1..Len(AckedOf(q)) : AckedOf(q)[j].msg.id < ready[q][k].id
              /\ \A j \in 1..(k - 1) : ready[q][j].id < ready[q][k].id
        /\ \A q \in QueueNames : \A k \in 2..Len(AckedOf(q)) :
              AckedOf(q)[k - 1].msg.id < AckedOf(q)[k].msg.id
        /\ \A k \in 2..Len(saved) : saved[k - 1].id < saved[k].id

\* C8: two users published one after the other were saved, nothing was
\* redelivered.
C8_Witness ==
    /\ NoRedelivery
    /\ Len(saved) >= 2
    /\ Len(AckedOf(userQueue)) >= 2

\* C9: the registry never holds a queue twice; an assertQueue of a queue
\* that exists leaves the registry as it is, no assertQueue touches the
\* messages held, and an assertQueue that was issued can always resolve.
C9_IdempotentAssertQueue ==
    /\ [](Cardinality(Range(registry)) = Len(registry))
    /\ [](\A p \in Procs :
            /\ (phase[p] = "mq" /\ pc[p] = "assertQueue") => ENABLED QueueAsserted(p)
            /\ (phase[p] = "mq" /\ pc[p] = "assertUserQueue") =>
                   ENABLED (ProducerReady \/ ConsumerReady))
    /\ [][\A p \in Procs :
            /\ QueueAsserted(p) =>
                   /\ queue \in Range(registry) => registry' = registry
                   /\ ready' = ready /\ inflight' = inflight
            /\ (ProducerReady \/ ConsumerReady) =>
                   /\ userQueue \in Range(registry) => registry' = registry
                   /\ ready' = ready /\ inflight' = inflight]_vars

\* C9: the consumer has asserted `queue`, which the producer had declared
\* and which holds a message, and is about to assert userQueue again.
C9_Witness ==
    /\ phase["producer"] = "up"
    /\ phase["consumer"] = "mq"
    /\ pc["consumer"] = "assertUserQueue"
    /\ registry = <<queue, userQueue>>
    /\ ready[queue] # <<>>

\* C10: a request is handled in whatever state the consumer is; its status
\* is 200 exactly when the publish returned true (400 for a POST /user
\* without a body, which publishes nothing); and a message leaves the ready
\* messages of its queue only by being delivered to a consumer.
C10_PublishDoesNotWait ==
    /\ []((Listening /\ Accepting) => (ENABLED GetRoot /\ ENABLED GetSend /\ ENABLED PostUser))
    /\ [](http # NoRequest =>
            /\ http.status \in {200, 400, 500}
            /\ http.status = 200 <=> http.sent = "true"
            /\ http.status = 400 => (http.route = "POST /user" /\ http.sent = "none"))
    /\ [][\A q \in QueueNames : \A k \in 1..Len(ready[q]) :
            \/ \E j \in 1..Len(ready'[q]) : ready'[q][j] = ready[q][k]
            \/ \E e \in inflight'[q] : e.msg.id = ready[q][k].id]_vars

\* C10: a publish was answered with 200 while no consumer runs, and the
\* message waits in its queue.
C10_Witness ==
    /\ phase["consumer"] = "exited"
    /\ sessions = {}
    /\ http.status = 200
    /\ http.route = "POST /user"
    /\ ready[userQueue] # <<>>

\* A request is handled in this step.
Request == GetRoot \/ GetSend \/ PostUser

\* C11 as stated: every request is answered 200 exactly when sendToQueue was
\* called and returned true, and 500 when `channel` is not set, when
\* sendToQueue returned false and when it threw.
C11_FailuresSurfaced ==
    [][Request =>
          /\ http'.status = 200 <=> http'.sent = "true"
          /\ (~channel.set \/ http'.sent \in {"false", "threw"}) => http'.status = 500]_vars

\* C11 as amended: a POST /user without a body is answered 400, calls no
\* sendToQueue and publishes nothing; every other request is answered 200
\* exactly when sendToQueue was called and returned true, and 500 when
\* `channel` is not set, when sendToQueue returned false and when it threw.
C11_FailuresSurfacedOr400 ==
    [][Request =>
          /\ http'.status \in {200, 400, 500}
          /\ http'.status = 200 <=> http'.sent = "true"
          /\ http'.status = 400 =>
                /\ http'.route = "POST /user"
                /\ http'.sent = "none"
                /\ UNCHANGED <<outbox, ready, nextId>>
          /\ (http'.status # 400 /\ (~channel.set \/ http'.sent \in {"false", "threw"})) =>
                http'.status = 500]_vars

\* C11: a POST /user without a body was answered 400 while `channel` was
\* not set.
C11_Witness ==
    /\ ~channel.set
    /\ http = [route |-> "POST /user", sent |-> "none", status |-> 400]

\* The last request was answered 500 on a false result of sendToQueue and
\* its message is the only one left in the write buffer.
FailedRequestBuffered ==
    /\ http.status = 500
    /\ http.sent = "false"
    /\ Len(outbox) = 1

\* C12: the message of a request answered 500 is not in the queue and does
\* not get there later: the step that answers 500 leaves the queues as they
\* are, and no later write of the socket puts the message in its queue.
C12_FailedPublishNotApplied ==
    [][/\ (Request /\ http'.status = 500) => ready' = ready
       /\ (FailedRequestBuffered /\ Flush) => ready' = ready]_vars

\* C13: a userQueue message whose payload is no JSON text, once delivered,
\* ends up on the dead-letter path.
C13_PoisonDeadLettered ==
    \A id \in 1..(MaxMessages + 1) :
        (\E e \in inflight[userQueue] : e.msg.id = id /\ ~Parses(e.msg.payload))
            ~> (\E m \in dead : m.id = id)

\* The userQueue handler of the running consumer has ended without acking
\* the message `id`, which is still in flight for it.
EndedWithoutAck(id) ==
    /\ phase["consumer"] = "up"
    /\ \E e \in inflight[userQueue] :
          /\ e.consumer = ConsumerId(userQueue)
          /\ e.msg.id = id
          /\ \A h \in handling : h.msg.id # id

\* C14: a userQueue message whose handler ended without an ack is eventually
\* delivered again: a handler is called with it once more.
C14_UnackedRedelivered ==
    \A id \in 1..(MaxMessages + 1) :
        EndedWithoutAck(id) ~> (\E h \in handling : h.msg.id = id)

\* The in-flight entries, of any queue, of the message `id`.
InFlightOf(id) == {e \in inflight[queue] \cup inflight[userQueue] : e.msg.id = id}

\* The message `id` is ready in some queue.
IsReady(id) == \E q \in QueueNames : \E k \in 1..Len(ready[q]) : ready[q][k].id = id

\* C15: a message is in flight for at most one consumer, and it is never
\* both ready in a queue and in flight.
C15_AtMostOneActiveDelivery ==
    \A id \in 1..(nextId - 1) :
        /\ Cardinality(InFlightOf(id)) <= 1
        /\ Cardinality({e.consumer : e \in InFlightOf(id)}) <= 1
        /\ ~(IsReady(id) /\ InFlightOf(id) # {})

\* C15: after a crash and a restart the new consumer holds a message while
\* another message is still in flight for the consumer that is gone.
C15_Witness ==
    /\ crashes > 0
    /\ phase["consumer"] = "up"
    /\ \E q1 \in QueueNames, q2 \in QueueNames :
          \E e1 \in inflight[q1], e2 \in inflight[q2] :
              /\ e1.consumer[2] < crashes
              /\ e2.consumer[2] = crashes
              /\ e1.msg.id # e2.msg.id

ConsumerCancelled(q) ==
    /\ phase["consumer"] = "up"
    /\ \E sess \in sessions : sess.id = ConsumerId(q) /\ sess.state = "Draining"

\* C17: the step in which a handler invocation of `queue` ends acks the
\* message it was called with, and every message ready in `queue` is
\* eventually acked, unless the server cancels the consumer of `queue`.
C17_TasksAcked ==
    /\ [][\A h \in handling :
            (h.consumer[1] = queue /\ h \notin handling' /\ crashes' = crashes) =>
               /\ Len(acked') = Len(acked) + 1
               /\ acked'[Len(acked')] = [msg |-> h.msg, queue |-> queue, result |-> "ok"]
               /\ \A e \in inflight'[queue] : e.msg.id # h.msg.id]_vars
    /\ \A id \in 1..(MaxMessages + 1) :
          (\E k \in 1..Len(ready[queue]) : ready[queue][k].id = id)
              ~> (AckedOk(id) \/ ConsumerCancelled(queue))

\* C17: two messages published to `queue` were delivered and acked, one
\* after the other, and the queue is empty.
C17_Witness ==
    /\ Len(AckedOf(queue)) >= 2
    /\ \A k \in 1..Len(AckedOf(queue)) : AckedOf(queue)[k].result = "ok"
    /\ ready[queue] = <<>>
    /\ inflight[queue] = {}

\* C18: no ack of the consumer is answered UnknownMessage and no delivery is
\* acked twice; an ack is sent only in a step of the handler that was called
\* with the message, while the message is in flight for the running
\* consumer; and the handler called with null acks nothing and saves nothing.
C18_AckNeverMisused ==
    /\ [](\A k \in 1..Len(acked) :
            /\ acked[k].result = "ok"
            /\ \A j \in 1..(k - 1) : acked[j].msg # acked[k].msg)
    /\ [][Len(acked') > Len(acked) =>
             /\ Len(acked') = Len(acked) + 1
             /\ \E h \in handling \ handling' :
                   /\ h.msg = acked'[Len(acked')].msg
                   /\ h.consumer = ConsumerId(acked'[Len(acked')].queue)
                   /\ [msg |-> h.msg, consumer |-> h.consumer] \in inflight[h.consumer[1]]]_vars
    /\ [][(\E sess \in sessions : Cancelled(sess)) => (acked' = acked /\ saved' = saved)]_vars

\* C18: the server has cancelled the consumer of userQueue; messages of both
\* queues were acked and nothing is left in flight.
C18_Witness ==
    /\ ConsumerCancelled(userQueue)
    /\ AckedOf(queue) # <<>>
    /\ AckedOf(userQueue) # <<>>
    /\ inflight[queue] = {}
    /\ inflight[userQueue] = {}

\* C19: whenever the producer's `channel` is set, both queues have been
\* asserted on it, and a request calls sendToQueue without an exception
\* only on the channel of a RabbitMQ attempt that has finished successfully.
C19_ChannelSetQueuesAsserted ==
    /\ [](channel.set => channel.asserted = {queue, userQueue})
    /\ [][(Request /\ http'.sent \in {"true", "false"}) =>
             /\ channel.asserted = {queue, userQueue}
             /\ retried["producer"]["RabbitMQ"] = "true"]_vars

\* C20: once a userQueue handler has ended without an ack, a message that
\* is ready in userQueue behind the failed one is still eventually delivered
\* to the consumer.
C20_FailedMessageDoesNotBlock ==
    \A id \in 1..(MaxMessages + 1) :
        (/\ \E failed \in 1..(MaxMessages + 1) : failed # id /\ EndedWithoutAck(failed)
         /\ \E k \in 1..Len(ready[userQueue]) : ready[userQueue][k].id = id)
            ~> (\E e \in inflight[userQueue] : e.msg.id = id)

\* C21: a service process holds at most one open broker connection at any
\* time, whatever RabbitMQ connection attempts have failed before: a failed
\* attempt leaves no open connection behind for the next amqplib.connect.
C21_OneConnection ==
    \A p \in Procs : openConns[p] <= 1

\* C22: startUp connects in a fixed order.  A process has called
\* amqplib.connect only if its database connectWithRetry has returned true;
\* and once the database retries are exhausted the process (the only one
\* launched) has never called amqplib.connect, holds no connection and no
\* channel, and no queue was asserted and no consumer registered.
C22_DatabaseBeforeRabbitMQ ==
    \A p \in Procs :
        /\ calls[p]["RabbitMQ"] > 0 => retried[p][DbService(p)] = "true"
        /\ retried[p]["RabbitMQ"] # "none" => retried[p][DbService(p)] = "true"
        /\ phase[p] \in {"mq", "up"} => retried[p][DbService(p)] = "true"
        /\ (phase[p] # "off" /\ retried[p][DbService(p)] # "true") =>
              /\ openConns[p] = 0
              /\ channel = Undefined
              /\ registry = <<>>
              /\ sessions = {}
        /\ retried[p][DbService(p)] = "threw" =>
              /\ phase[p] = "exited"
              /\ calls[p]["RabbitMQ"] = 0
              /\ waits[p]["RabbitMQ"] = <<>>

\* C22: the database retries of a process are exhausted after maxRetries
\* calls; the process has exited without a RabbitMQ attempt.
C22_Witness ==
    \E p \in Procs :
        /\ retried[p][DbService(p)] = "threw"
        /\ calls[p][DbService(p)] = maxRetries
        /\ retried[p]["RabbitMQ"] = "none"
        /\ exitCode[p] = 1

\* A request of the producer is handled while `channel` is still undefined.
RequestBeforeChannel == Request /\ ~channel.set

\* The request is answered, publishes nothing and leaves `channel`, the
\* process and the progress of startUp as they were.
AnsweredWithoutEffect ==
    /\ http'.route # "none"
    /\ http'.status # 0
    /\ UNCHANGED <<outbox, channel, procVars, retryVars, brokerVars>>

\* C23 (as stated): every GET /, GET /send and POST /user request handled
\* before the channel has been created is answered 500, publishes nothing
\* and leaves `channel`, the process and the progress of startUp unchanged.
C23_RequestsBeforeChannel ==
    [][RequestBeforeChannel => (http'.status = 500 /\ AnsweredWithoutEffect)]_vars

\* C23 (amended): a request handled before the channel has been created is
\* answered 400 if it is a POST /user without a body and 500 otherwise (the
\* GET routes without calling sendToQueue, POST /user on the caught
\* TypeError); it publishes nothing and leaves `channel`, the process and the
\* progress of startUp unchanged.
C23_RequestsBeforeChannelOr400 ==
    [][RequestBeforeChannel =>
          /\ AnsweredWithoutEffect
          /\ http'.status \in {400, 500}
          /\ http'.status = 400 <=> (http'.route = "POST /user" /\ http'.sent = "none")
          /\ http'.route = "POST /user" => http'.sent \in {"none", "threw"}
          /\ http'.route \in {"GET /", "GET /send"} => http'.sent = "none"]_vars

\* C23: while startUp was still connecting to RabbitMQ, with `channel`
\* undefined, a POST /user with a body was answered 500 on the TypeError and
\* the producer is running.
C23_Witness ==
    /\ phase["producer"] = "mq"
    /\ pc["producer"] \in {"connect", "sleep", "createChannel"}
    /\ ~channel.set
    /\ http = [route |-> "POST /user", sent |-> "threw", status |-> 500]
    /\ exitCode["producer"] = -1

\* The consumers the current run of the consumer process has registered.
Registered == SessionsOf(crashes)

\* At most one consumer per queue and run; the consumers of the current run
\* exist only once a RabbitMQ attempt has finished successfully, and they are
\* the two of that attempt, one per queue, with the prefetch limit set and
\* both queues asserted.
RegisteredOnce ==
    /\ \A s1, s2 \in sessions :
          (s1.queue = s2.queue /\ s1.id[2] = s2.id[2]) => s1.id = s2.id
    /\ Registered # {} =>
          /\ retried["consumer"]["RabbitMQ"] = "true"
          /\ {sess.queue : sess \in Registered} = {queue, userQueue}
          /\ {queue, userQueue} \subseteq Range(registry)
          /\ \A sess \in Registered :
                /\ sess.id = ConsumerId(sess.queue)
                /\ sess.prefetch_limit = prefetch

\* C24: in one run of the consumer process consumers are registered at most
\* once per queue, whatever attempts failed before: RegisteredOnce holds in
\* every state, and every step that registers a consumer is the end of an
\* attempt in which both assertQueue calls succeeded, taken while the run has
\* no consumer yet.
C24_ConsumersRegisteredOnce ==
    /\ []RegisteredOnce
    /\ [][(\E sess \in sessions' : sess.id \notin {x.id : x \in sessions}) =>
             /\ Registered = {}
             /\ pc["consumer"] = "assertUserQueue"
             /\ queue \in Range(registry)
             /\ retried'["consumer"]["RabbitMQ"] = "true"
             /\ phase'["consumer"] = "up"]_vars

\* C24: the consumer process has registered its two consumers in its fourth
\* RabbitMQ attempt, after attempts that failed once the connection was open
\* (two of their connections are still open).
C24_Witness ==
    /\ calls["consumer"]["RabbitMQ"] = 4
    /\ openConns["consumer"] = 3
    /\ Cardinality(Registered) = 2
    /\ phase["consumer"] = "up"

====
